---- MODULE Spec2Model ----
(***************************************************************************)
(* Tool invocation over three client/server bindings:                      *)
(*   "fc"   client/fc.py   <-> server/fc.py   (HTTP, Gemini function call) *)
(*   "rest" client/rest.py <-> server/rest.py (HTTP, hardcoded endpoints)  *)
(*   "mcp"  client/mcp_client.py <-> MCP server over stdio                 *)
(* One client program runs per behaviour (binding is fixed by Init).       *)
(***************************************************************************)
EXTENDS Integers, Sequences, FiniteSets, TLC

VARIABLES
    binding,     \* which client program is running
    pc,          \* position of the client's main program
    exitReason,  \* why the client program ended ("" while it runs)
    tools,       \* tools_metadata / tools: the discovered descriptors
    user_input,  \* the line read by input("> ").strip()
    decision,    \* what the decision model answered for the current request
    nreq,        \* number of requests read so far
    wire,        \* every Transport operation the client has issued, in order
    pending,     \* the call the client is blocked on (NoCall when none)
    inbox,       \* HTTP requests that reached the server, not yet handled
    reply,       \* the response delivered to the blocked client (NoReply when none)
    lastExec,    \* the server's most recent tool execution
    outcome,     \* what the loop printed last for a request
    files,       \* temporary files that exist under /tmp
    declared,    \* what the client handed to the decision model as the tools
    fetched,     \* the responses the server gave to GET /tools, in order
    uploads,     \* the stt requests the server is handling, by handler slot
    disk,        \* server /tmp: path -> inode (NoInode when the path is absent)
    inodes,      \* server /tmp: inode -> data written to it
    nstt         \* number of stt requests the server has accepted

clientVars == <<binding, pc, exitReason, tools, user_input, decision, nreq, wire,
                pending, inbox, reply, lastExec, outcome, files, declared>>
serverVars == <<fetched, uploads, disk, inodes, nstt>>
vars == <<clientVars, serverVars>>

-----------------------------------------------------------------------------
(* Bounds *)

MaxRequests == 2
MaxWait == 32
MaxFetches == 2
MaxUploads == 3

(* Program constants *)

SendTimeout == 30
FetchTimeout == 5

-----------------------------------------------------------------------------
(* Values *)

Bindings == {"fc", "rest", "mcp"}

NoneText == "<None>"

\* A JSON / Python dict of arguments: a set of (key, type, value) entries.
Arg(k, t, v) == [k |-> k, t |-> t, v |-> v]
Keys(args) == {a.k : a \in args}

ArgsEmpty == {}
ArgsHello == {Arg("text", "string", "hello")}
ArgsNumber == {Arg("text", "integer", "42")}
ArgsExtra == {Arg("text", "string", "hello"), Arg("dest", "string", "ja")}
ArgsPlaceholder == {Arg("audio_base64", "string", "PLACEHOLDER")}
ArgsAudio == {Arg("audio_base64", "string", "UklGRg==")}

NoCallObj == [name |-> NoneText, args |-> {}]
CallObj(n, a) == [name |-> n, args |-> a]

-----------------------------------------------------------------------------
(* Server: server/fc.py and server/rest.py *)

list_tools_duplicate_name ==
    << [name |-> "translate",
        description |-> "Translates the given text to Thai language.",
        parameters |->
            [type |-> "object",
             properties |-> {[k |-> "text", t |-> "string",
                              description |-> "The text to translate to Thai"]},
             required |-> <<"text">>]],
       [name |-> "translate",
        description |-> "Transcribes audio to text.",
        parameters |-> [type |-> "object", properties |-> {}]] >>

\* GET /tools: the published descriptors, in the order the list is written.
\* The stt parameters carry no "required" key.
list_tools ==
    << [name |-> "translate",
        description |-> "Translates the given text to Thai language.",
        parameters |->
            [type |-> "object",
             properties |-> {[k |-> "text", t |-> "string",
                              description |-> "The text to translate to Thai"]},
             required |-> <<"text">>]],
       [name |-> "stt",
        description |-> "Transcribes audio to text.",
        parameters |-> [type |-> "object", properties |-> {}]] >>

\* An HTTP request body: a JSON object, or a multipart form with one file field.
JsonBody(args) == [kind |-> "json", args |-> args, field |-> "", filename |-> ""]
MultipartBody(field, filename) ==
    [kind |-> "multipart", args |-> {}, field |-> field, filename |-> filename]

Resp(status, key, value, loc) ==
    [status |-> status, key |-> key, value |-> value, loc |-> loc]

\* What the handler (translate_text, or open/write/whisper transcribe) does:
\* it returns v, or raises Exception(v) at the named place.
Outcome(raisedAt, v) == [raisedAt |-> raisedAt, v |-> v]
TranslateOutcomes ==
    {Outcome("none", "sawasdee"), Outcome("handler", "translator unavailable")}
SttOutcomes ==
    {Outcome("none", "hello world"), Outcome("open", "permission denied"),
     Outcome("write", "no space left on device"),
     Outcome("handler", "invalid audio data")}

\* class TranslateRequest(BaseModel): text: str, as the body of the endpoint.
\* Extra fields are ignored; a missing or non-string text is rejected with the
\* location of the field.
TranslateRequestLenient(body) ==
    IF body.kind = "json" /\ \E a \in body.args : a.k = "text" /\ a.t = "string"
    THEN [ok |-> TRUE, text |-> (CHOOSE a \in body.args : a.k = "text").v,
          loc |-> "", msg |-> ""]
    ELSE [ok |-> TRUE, text |-> "", loc |-> "", msg |-> ""]

TranslateRequest(body) ==
    IF body.kind # "json"
    THEN [ok |-> FALSE, text |-> "", loc |-> "body",
          msg |-> "Input should be a valid dictionary"]
    ELSE IF "text" \notin Keys(body.args)
    THEN [ok |-> FALSE, text |-> "", loc |-> "text", msg |-> "Field required"]
    ELSE LET a == CHOOSE x \in body.args : x.k = "text" IN
         IF a.t # "string"
         THEN [ok |-> FALSE, text |-> "", loc |-> "text",
               msg |-> "Input should be a valid string"]
         ELSE [ok |-> TRUE, text |-> a.v, loc |-> "", msg |-> ""]

\* audio: UploadFile = File(...): the multipart field audio is required.
UploadFile(body) ==
    IF body.kind = "multipart" /\ body.field = "audio"
    THEN [ok |-> TRUE, filename |-> body.filename, loc |-> "", msg |-> ""]
    ELSE [ok |-> FALSE, filename |-> "", loc |-> "audio", msg |-> "Field required"]

\* The result of one endpoint call: the HTTP response, whether the handler
\* (translate_text / whisper_model.transcribe) was invoked, the message of the
\* exception raised inside the endpoint ("" when none), and the /tmp files.
Exec(path, body, response, invoked, fault, fs) ==
    [path |-> path, body |-> body, response |-> response,
     invoked |-> invoked, fault |-> fault, files |-> fs]

translate_endpoint_unguarded(path, body, h, fs) ==
    LET v == TranslateRequest(body) IN
    IF ~v.ok
    THEN Exec(path, body, Resp(422, "detail", v.msg, v.loc), FALSE, "", fs)
    ELSE IF h.raisedAt # "none"
    THEN Exec(path, body, Resp(500, "body", "Internal Server Error", ""), TRUE,
              h.v, fs)
    ELSE Exec(path, body, Resp(200, "translated_text", h.v, ""), TRUE, "", fs)

\* translate_endpoint (server/fc.py) and translate (server/rest.py).
translate_endpoint(path, body, h, fs) ==
    LET v == TranslateRequest(body) IN
    IF ~v.ok
    THEN Exec(path, body, Resp(422, "detail", v.msg, v.loc), FALSE, "", fs)
    ELSE IF h.raisedAt # "none"
    THEN Exec(path, body, Resp(500, "detail", h.v, ""), TRUE, h.v, fs)
    ELSE Exec(path, body, Resp(200, "translated_text", h.v, ""), TRUE, "", fs)

\* stt_endpoint (server/fc.py) and speech_to_text (server/rest.py); prefix is
\* "/tmp/fc_server_" or "/tmp/rest_server_".  The whole body is inside try.
stt_endpoint(path, prefix, body, h, fs) ==
    LET u == UploadFile(body)
        audio_path == prefix \o u.filename
    IN
    IF ~u.ok
    THEN Exec(path, body, Resp(422, "detail", u.msg, u.loc), FALSE, "", fs)
    ELSE IF h.raisedAt = "open"
    THEN Exec(path, body, Resp(500, "detail", h.v, ""), FALSE, h.v, fs)
    ELSE IF h.raisedAt = "write"
    THEN Exec(path, body, Resp(500, "detail", h.v, ""), FALSE, h.v,
              fs \cup {audio_path})
    ELSE IF h.raisedAt = "handler"
    THEN Exec(path, body, Resp(500, "detail", h.v, ""), TRUE, h.v,
              fs \cup {audio_path})
    ELSE Exec(path, body, Resp(200, "transcribed_text", h.v, ""), TRUE, "",
              fs \ {audio_path})

NotFound(path, body, fs) ==
    Exec(path, body, Resp(404, "detail", "Not Found", ""), FALSE, "", fs)

\* The routes each server program registers with @app.post.
Route(b, path, body, h, fs) ==
    IF b = "fc" /\ path = "/tools/translate"
    THEN translate_endpoint(path, body, h, fs)
    ELSE IF b = "fc" /\ path = "/tools/stt"
    THEN stt_endpoint(path, "/tmp/fc_server_", body, h, fs)
    ELSE IF b = "rest" /\ path = "/api/translate"
    THEN translate_endpoint(path, body, h, fs)
    ELSE IF b = "rest" /\ path = "/api/stt"
    THEN stt_endpoint(path, "/tmp/rest_server_", body, h, fs)
    ELSE NotFound(path, body, fs)

HandlerOutcomes(path) ==
    IF path \in {"/tools/stt", "/api/stt"} THEN SttOutcomes ELSE TranslateOutcomes

-----------------------------------------------------------------------------
(* Clients: what one request does up to the Transport call *)

\* A step of the request code ends in one of three ways: it returns a string
\* to the loop, it raises, or it hands a call to the Transport.
\* cls is "Exception" for everything `except Exception` catches and
\* "BaseException" for what it does not (asyncio.CancelledError).
Return(text) == [kind |-> "return", cls |-> "", text |-> text,
                 name |-> "", args |-> {}]
Raise(cls, text) == [kind |-> "raise", cls |-> cls, text |-> text,
                     name |-> "", args |-> {}]
Call(name, args) == [kind |-> "call", cls |-> "", text |-> "",
                     name |-> name, args |-> args]

\* google.genai response: candidates[i].content.parts[j], a part having the
\* attributes in attrs; text / function_call are None when not set.
Part(attrs, text, fc) == [attrs |-> attrs, text |-> text, function_call |-> fc]
Gemini(raised, candidates) ==
    [raised |-> raised, candidates |-> candidates, text |-> NoneText]
BothAttrs == {"text", "function_call"}

FcResponses ==
    {Gemini(TRUE, <<>>),
     Gemini(FALSE, <<>>),
     Gemini(FALSE, << <<>> >>),
     Gemini(FALSE, << <<Part(BothAttrs, "hi", NoCallObj)>> >>),
     Gemini(FALSE, << <<Part(BothAttrs, "", NoCallObj)>> >>),
     Gemini(FALSE, << <<Part(BothAttrs, NoneText, NoCallObj)>> >>),
     Gemini(FALSE, << <<Part({"text"}, NoneText, NoCallObj)>> >>),
     Gemini(FALSE, << <<Part(BothAttrs, NoneText, CallObj("translate", ArgsHello))>> >>),
     Gemini(FALSE, << <<Part(BothAttrs, NoneText, CallObj("translate", ArgsExtra))>> >>),
     Gemini(FALSE, << <<Part(BothAttrs, NoneText, CallObj("translate", ArgsEmpty))>> >>),
     Gemini(FALSE, << <<Part(BothAttrs, NoneText, CallObj("translate", ArgsNumber))>> >>),
     Gemini(FALSE, << <<Part(BothAttrs, NoneText, CallObj("stt", ArgsEmpty))>> >>),
     Gemini(FALSE, << <<Part(BothAttrs, NoneText, CallObj("delete_everything", ArgsEmpty))>> >>),
     Gemini(FALSE, << <<Part(BothAttrs, "hi", CallObj("translate", ArgsHello))>> >>)}

Truthy(text) == text # NoneText /\ text # ""

\* generate_with_remote_tools, Step 2 up to the call of execute_tool_on_server.
FcStep2(response) ==
    IF response.candidates = <<>>
    THEN Return("No response from Gemini")
    ELSE LET parts == response.candidates[1] IN
         IF parts = <<>>
         THEN Raise("Exception", "IndexError: list index out of range")
         ELSE LET first_part == parts[1] IN
              IF "text" \in first_part.attrs /\ Truthy(first_part.text)
              THEN Return(first_part.text)
              ELSE IF "function_call" \in first_part.attrs
              THEN IF first_part.function_call = NoCallObj
                   THEN Raise("Exception",
                              "AttributeError: 'NoneType' object has no attribute 'name'")
                   ELSE Call(first_part.function_call.name,
                             first_part.function_call.args)
              ELSE Return("Unexpected response format")

\* client.models.generate_content may itself raise.
FcDecision(response) ==
    IF response.raised THEN Raise("Exception", "google.genai.errors.APIError")
    ELSE FcStep2(response)

\* convert_to_gemini_tool: FunctionDeclaration(name, description, parameters).
convert_to_gemini_tool(tool_metadata) ==
    [name |-> tool_metadata.name, description |-> tool_metadata.description,
     parameters |-> tool_metadata.parameters]

\* llm_decide_tool: the prompt line f"- {tool.name}: {tool.description}".
tool_description(tool) ==
    [name |-> tool.name, description |-> tool.description]

HttpReq(path, body) == [path |-> path, body |-> body]

FcRequestAlwaysJson(tool_name, arguments) ==
    HttpReq("/tools/" \o tool_name, JsonBody(arguments))

\* execute_tool_on_server: the request it posts.
FcRequest(tool_name, arguments) ==
    IF tool_name = "stt"
    THEN HttpReq("/tools/stt", MultipartBody("audio", "fc_client_recording.wav"))
    ELSE HttpReq("/tools/" \o tool_name, JsonBody(arguments))

\* final_response.text or "No response"
FinalTexts == {NoneText, "", "sawasdee"}
FinalText(text) == IF Truthy(text) THEN text ELSE "No response"

\* REST client: the endpoint is chosen from the input line.
Lower(line) ==
    CASE line = "EXIT" -> "exit"
      [] line = "Record" -> "record"
      [] OTHER -> line

RestRequest(line) ==
    IF Lower(line) = "record"
    THEN HttpReq("/api/stt", MultipartBody("audio", "rest_client_recording.wav"))
    ELSE HttpReq("/api/translate", JsonBody({Arg("text", "string", line)}))

\* result['translated_text'] / result['transcribed_text']
RestResultKey(line) ==
    IF Lower(line) = "record" THEN "transcribed_text" ELSE "translated_text"

-----------------------------------------------------------------------------
(* MCP client: llm_decide_tool and the request body of main's loop *)

\* response.text of the decision model (NoneText when the API gives no text).
TxtTranslate == "{\"name\": \"translate\", \"arguments\": {\"text\": \"hello\"}}"
TxtTranslateNoText == "{\"name\": \"translate\", \"arguments\": {}}"
TxtTranslateNoArgs == "{\"name\": \"translate\"}"
TxtStt == "{\"name\": \"stt\", \"arguments\": {\"audio_base64\": \"PLACEHOLDER\"}}"
TxtUnknown == "{\"name\": \"delete_everything\", \"arguments\": {}}"
TxtNoName == "{\"arguments\": {}}"
TxtString == "\"hi\""
TxtPlain == "hi"
TxtTruncated == "{\"name\": \"transl"

LlmText(raised, text) == [raised |-> raised, candidates |-> <<>>, text |-> text]

McpTexts ==
    {TxtTranslate, TxtTranslateNoText, TxtTranslateNoArgs, TxtStt, TxtUnknown,
     TxtNoName, TxtString, TxtPlain, TxtTruncated, NoneText}

Parsed(type, keys, name, arguments) ==
    [ok |-> TRUE, err |-> "", type |-> type, keys |-> keys, name |-> name,
     arguments |-> arguments]
ParseError(err) ==
    [ok |-> FALSE, err |-> err, type |-> "", keys |-> {}, name |-> "",
     arguments |-> {}]

\* json.loads on the texts above.
json_loads(text) ==
    CASE text = TxtTranslate ->
            Parsed("dict", {"name", "arguments"}, "translate", ArgsHello)
      [] text = TxtTranslateNoText ->
            Parsed("dict", {"name", "arguments"}, "translate", ArgsEmpty)
      [] text = TxtTranslateNoArgs ->
            Parsed("dict", {"name"}, "translate", ArgsEmpty)
      [] text = TxtStt ->
            Parsed("dict", {"name", "arguments"}, "stt", ArgsPlaceholder)
      [] text = TxtUnknown ->
            Parsed("dict", {"name", "arguments"}, "delete_everything", ArgsEmpty)
      [] text = TxtNoName ->
            Parsed("dict", {"arguments"}, "", ArgsEmpty)
      [] text = TxtString ->
            Parsed("str", {}, "", ArgsEmpty)
      [] text = NoneText ->
            ParseError("TypeError: the JSON object must be str, bytes or bytearray, not NoneType")
      [] OTHER ->
            ParseError("JSONDecodeError: Expecting value")

\* llm_decide_tool followed by main's loop body up to session.call_tool.
McpDecision(raised, text) ==
    IF raised THEN Raise("Exception", "google.genai.errors.APIError")
    ELSE LET tool_decision == json_loads(text) IN
         IF ~tool_decision.ok
         THEN Raise("Exception", tool_decision.err)
         ELSE IF tool_decision.type # "dict"
         THEN Raise("Exception", "TypeError: string indices must be integers")
         ELSE IF "name" \notin tool_decision.keys
         THEN Raise("Exception", "KeyError: 'name'")
         ELSE IF tool_decision.name = "stt"
         THEN Call("stt", ArgsAudio)
         ELSE Call(tool_decision.name,
                   IF "arguments" \in tool_decision.keys
                   THEN tool_decision.arguments ELSE ArgsEmpty)

\* The tools the MCP server publishes (server/mcp_server.py).
mcp_list_tools ==
    << [name |-> "translate",
        description |-> "Translates the given text to Thai language.",
        parameters |->
            [type |-> "object",
             properties |-> {[k |-> "text", t |-> "string", description |-> ""]},
             required |-> <<"text">>]],
       [name |-> "stt",
        description |-> "Transcribes audio to text.",
        parameters |->
            [type |-> "object",
             properties |-> {[k |-> "audio_base64", t |-> "string",
                              description |-> ""]},
             required |-> <<"audio_base64">>]] >>

\* What awaiting session.call_tool ends in: a result with content blocks, a
\* result without content, an McpError, or cancellation because the stdio
\* channel broke.
McpResult(kind, text) == [kind |-> kind, text |-> text]
McpCallResults ==
    {McpResult("content", "sawasdee"), McpResult("empty", ""),
     McpResult("error", "McpError: tool execution failed"),
     McpResult("cancelled", "CancelledError")}

\* The order of main's awaits before the loop.
McpNextOpDiscoverFirst(p) ==
    CASE p = "start" -> "connect"
      [] p = "connected" -> "list_tools"
      [] p = "initialized" -> "initialize"
      [] OTHER -> ""

McpNextOp(p) ==
    CASE p = "start" -> "connect"
      [] p = "connected" -> "initialize"
      [] p = "initialized" -> "list_tools"
      [] OTHER -> ""

-----------------------------------------------------------------------------
(* State *)

NoDecision == [raised |-> FALSE, candidates |-> <<>>, text |-> "<undecided>"]
NoOutcome == [kind |-> "none", text |-> ""]
Result(text) == [kind |-> "result", text |-> text]
Error(text) == [kind |-> "error", text |-> text]

\* One Transport operation as the client issued it; reqno is the request of
\* the loop it belongs to (0 before the loop), name and args are the tool name
\* and arguments the caller passed down, body is what goes over the wire.
Op(reqno, op, target, name, args, body, bounded, timeout) ==
    [reqno |-> reqno, op |-> op, target |-> target, name |-> name,
     args |-> args, body |-> body, bounded |-> bounded, timeout |-> timeout]
NoOp == Op(0, "", "", "", {}, JsonBody({}), FALSE, 0)
NoCall == [id |-> 0, req |-> NoOp, waited |-> 0]
NoReply == Resp(-1, "", "", "")
NoExec == [id |-> 0, path |-> "", body |-> JsonBody({}), response |-> NoReply,
           invoked |-> FALSE, fault |-> ""]

UserInputs == {"exit", "EXIT", "", "hello", "record"}

FcRecording == "/tmp/fc_client_recording.wav"
RestRecording == "/tmp/rest_client_recording.wav"

\* The server under concurrent requests: each handler slot is one running
\* call of stt_endpoint / speech_to_text.
Slots == {1, 2}
UploadNames == {"fc_client_recording.wav", "rest_client_recording.wav"}
AudioData == {"audio A", "audio B"}
NoInode == 0
NoUpload == [pc |-> "idle", filename |-> "", content |-> "", fd |-> NoInode,
             response |-> NoReply, fault |-> ""]
ServerPrefix(b) == IF b = "rest" THEN "/tmp/rest_server_" ELSE "/tmp/fc_server_"
ServerPaths == {pre \o n : pre \in {"/tmp/fc_server_", "/tmp/rest_server_"},
                           n \in UploadNames}

Init ==
    /\ binding \in Bindings
    /\ pc = IF binding = "rest" THEN "prompt" ELSE "start"
    /\ exitReason = ""
    /\ tools = <<>>
    /\ user_input = ""
    /\ decision = NoDecision
    /\ nreq = 0
    /\ wire = <<>>
    /\ pending = NoCall
    /\ inbox = <<>>
    /\ reply = NoReply
    /\ lastExec = NoExec
    /\ outcome = NoOutcome
    /\ files = {}
    /\ declared = <<>>
    /\ fetched = <<>>
    /\ uploads = [p \in Slots |-> NoUpload]
    /\ disk = [f \in ServerPaths |-> NoInode]
    /\ inodes = <<>>
    /\ nstt = 0

LoopExceptMissing(step) ==
    [pc |-> "exited", exitReason |-> "unhandled_exception",
     outcome |-> NoOutcome]

\* except Exception as e: print(f"Error: {e}"), then the next iteration of
\* while True.  What is not an Exception leaves the loop.
LoopExcept(step) ==
    IF step.cls = "Exception"
    THEN [pc |-> "prompt", exitReason |-> "", outcome |-> Error(step.text)]
    ELSE [pc |-> "exited", exitReason |-> "cancelled", outcome |-> NoOutcome]

\* print(f"Result: {result}"), then the next iteration.
LoopResult(text) ==
    [pc |-> "prompt", exitReason |-> "", outcome |-> Result(text)]

Finish(r) ==
    /\ pc' = r.pc
    /\ exitReason' = r.exitReason
    /\ outcome' = r.outcome

-----------------------------------------------------------------------------
(* Start-up *)

\* __main__ of client/fc.py: fetch_tools_from_server, exit(1) when it fails.
FcFetchTools ==
    /\ binding = "fc" /\ pc = "start"
    /\ wire' = Append(wire, Op(0, "GET", "/tools", "", {}, JsonBody({}), TRUE, FetchTimeout))
    /\ \E ok \in BOOLEAN :
          IF ok
          THEN tools' = list_tools /\ pc' = "prompt" /\ exitReason' = exitReason
          ELSE tools' = tools /\ pc' = "exited" /\ exitReason' = "startup_failed"
    /\ UNCHANGED serverVars
    /\ UNCHANGED <<declared, binding, user_input, decision, nreq, pending, inbox, reply,
                   lastExec, outcome, files>>

\* One await of main() before the loop; an exception there leaves main.
McpStartupStep(op, after, discovered) ==
    /\ binding = "mcp" /\ McpNextOp(pc) = op
    /\ wire' = Append(wire, Op(0, op, "", "", {}, JsonBody({}), FALSE, 0))
    /\ \E ok \in BOOLEAN :
          IF ok
          THEN tools' = discovered /\ pc' = after /\ exitReason' = exitReason
          ELSE tools' = tools /\ pc' = "exited" /\ exitReason' = "startup_failed"
    /\ UNCHANGED serverVars
    /\ UNCHANGED <<declared, binding, user_input, decision, nreq, pending, inbox, reply,
                   lastExec, outcome, files>>

\* async with stdio_client(server_params)
McpConnect == McpStartupStep("connect", "connected", tools)

\* await session.initialize()
McpInitialize == McpStartupStep("initialize", "initialized", tools)

\* tools = (await session.list_tools()).tools
McpListTools == McpStartupStep("list_tools", "prompt", mcp_list_tools)

-----------------------------------------------------------------------------
(* The interactive loop *)

\* user_input = input("> ").strip(); exit / empty line / a request.
ReadInput ==
    /\ pc = "prompt"
    /\ \E line \in UserInputs :
          IF Lower(line) = "exit"
          THEN /\ pc' = "exited" /\ exitReason' = "exit_command"
               /\ UNCHANGED <<user_input, decision, nreq, outcome>>
          ELSE IF line = ""
          THEN UNCHANGED <<pc, exitReason, user_input, decision, nreq, outcome>>
          ELSE /\ nreq < MaxRequests
               /\ pc' = "deciding" /\ user_input' = line /\ nreq' = nreq + 1
               /\ decision' = NoDecision /\ outcome' = NoOutcome
               /\ UNCHANGED exitReason
    /\ UNCHANGED serverVars
    /\ UNCHANGED <<declared, binding, tools, wire, pending, inbox, reply, lastExec, files>>

\* httpx.post(url, ..., timeout=30.0): the request leaves, the caller blocks.
Post(name, args, req) ==
    LET o == Op(nreq, "POST", req.path, name, args, req.body, TRUE, SendTimeout) IN
    /\ wire' = Append(wire, o)
    /\ pending' = [id |-> nreq, req |-> o, waited |-> 0]
    /\ inbox' = Append(inbox, [id |-> nreq, path |-> req.path, body |-> req.body])
    /\ pc' = "awaiting"
    /\ UNCHANGED <<exitReason, outcome>>

\* generate_with_remote_tools up to the post of execute_tool_on_server
\* (record_audio may fail before anything is written).
FcDecide ==
    /\ binding = "fc" /\ pc = "deciding"
    /\ \E response \in FcResponses, recorded \in BOOLEAN :
          LET step == FcDecision(response) IN
          /\ decision' = response
          /\ declared' = [i \in DOMAIN tools |-> convert_to_gemini_tool(tools[i])]
          /\ IF step.kind = "return"
             THEN Finish(LoopResult(step.text))
                  /\ UNCHANGED <<wire, pending, inbox, files>>
             ELSE IF step.kind = "raise"
             THEN Finish(LoopExcept(step))
                  /\ UNCHANGED <<wire, pending, inbox, files>>
             ELSE IF step.name = "stt" /\ ~recorded
             THEN Finish(LoopExcept(Raise("Exception", "PortAudioError")))
                  /\ UNCHANGED <<wire, pending, inbox, files>>
             ELSE /\ Post(step.name, step.args, FcRequest(step.name, step.args))
                  /\ files' = IF step.name = "stt"
                              THEN files \cup {FcRecording} ELSE files
    /\ UNCHANGED serverVars
    /\ UNCHANGED <<binding, tools, user_input, nreq, reply, lastExec>>

\* __main__ of client/rest.py: transcribe_audio() or translate_text(user_input).
RestDispatch ==
    /\ binding = "rest" /\ pc = "deciding"
    /\ \E recorded \in BOOLEAN :
          IF Lower(user_input) = "record" /\ ~recorded
          THEN Finish(LoopExcept(Raise("Exception", "PortAudioError")))
               /\ UNCHANGED <<wire, pending, inbox, files>>
          ELSE /\ Post("", {}, RestRequest(user_input))
               /\ files' = IF Lower(user_input) = "record"
                           THEN files \cup {RestRecording} ELSE files
    /\ UNCHANGED serverVars
    /\ UNCHANGED <<declared, binding, tools, user_input, decision, nreq, reply, lastExec>>

\* main() of client/mcp_client.py: llm_decide_tool, the stt recording, then
\* await session.call_tool(name, arguments) with no read timeout.
McpDecide ==
    /\ binding = "mcp" /\ pc = "deciding"
    /\ \E d \in {LlmText(TRUE, NoneText)} \cup {LlmText(FALSE, t) : t \in McpTexts},
          recorded \in BOOLEAN :
          LET step == McpDecision(d.raised, d.text) IN
          /\ decision' = d
          /\ declared' = [i \in DOMAIN tools |-> tool_description(tools[i])]
          /\ IF step.kind = "raise"
             THEN Finish(LoopExcept(step)) /\ UNCHANGED <<wire, pending>>
             ELSE IF step.name = "stt" /\ ~recorded
             THEN Finish(LoopExcept(Raise("Exception", "PortAudioError")))
                  /\ UNCHANGED <<wire, pending>>
             ELSE LET o == Op(nreq, "call_tool", step.name, step.name, step.args,
                              [kind |-> "mcp", args |-> step.args,
                               field |-> "", filename |-> ""], FALSE, 0)
                  IN /\ wire' = Append(wire, o)
                     /\ pending' = [id |-> nreq, req |-> o, waited |-> 0]
                     /\ pc' = "awaiting"
                     /\ UNCHANGED <<exitReason, outcome>>
    /\ UNCHANGED serverVars
    /\ UNCHANGED <<binding, tools, user_input, nreq, inbox, reply, lastExec, files>>

-----------------------------------------------------------------------------
(* HTTP server and the blocked client *)

\* The server runs the endpoint the request is routed to.  The response goes
\* to the client only if it is still waiting for this request.
ServerHandle ==
    /\ inbox # <<>>
    /\ LET r == Head(inbox) IN
       \E h \in HandlerOutcomes(r.path) :
          LET e == Route(binding, r.path, r.body, h, files) IN
          /\ lastExec' = [id |-> r.id, path |-> e.path, body |-> e.body,
                          response |-> e.response, invoked |-> e.invoked,
                          fault |-> e.fault]
          /\ files' = e.files
          /\ reply' = IF pending.id = r.id THEN e.response ELSE reply
    /\ inbox' = Tail(inbox)
    /\ UNCHANGED serverVars
    /\ UNCHANGED <<declared, binding, pc, exitReason, tools, user_input, decision, nreq,
                   wire, pending, outcome>>

\* httpx.ConnectError: the request never reaches the server.
ConnectError ==
    /\ pc = "awaiting" /\ binding # "mcp" /\ reply = NoReply
    /\ pending.waited = 0
    /\ inbox # <<>> /\ inbox[Len(inbox)].id = pending.id
    /\ inbox' = SubSeq(inbox, 1, Len(inbox) - 1)
    /\ pending' = NoCall
    /\ Finish(LoopExcept(Raise("Exception", "ConnectError")))
    /\ UNCHANGED serverVars
    /\ UNCHANGED <<declared, binding, tools, user_input, decision, nreq, wire, reply,
                   lastExec, files>>

\* One second passes while the client is blocked on its call.
Tick ==
    /\ pc = "awaiting" /\ pending # NoCall /\ reply = NoReply
    /\ pending.waited < MaxWait
    /\ pending.req.bounded => pending.waited < pending.req.timeout
    /\ pending' = [pending EXCEPT !.waited = @ + 1]
    /\ UNCHANGED serverVars
    /\ UNCHANGED <<declared, binding, pc, exitReason, tools, user_input, decision, nreq,
                   wire, inbox, reply, lastExec, outcome, files>>

\* httpx.ReadTimeout after timeout seconds without a response.
Timeout ==
    /\ pc = "awaiting" /\ pending # NoCall /\ reply = NoReply
    /\ pending.req.bounded /\ pending.waited >= pending.req.timeout
    /\ pending' = NoCall
    /\ Finish(LoopExcept(Raise("Exception", "ReadTimeout")))
    /\ UNCHANGED serverVars
    /\ UNCHANGED <<declared, binding, tools, user_input, decision, nreq, wire, inbox,
                   reply, lastExec, files>>

IsStt(o) == o.target \in {"/tools/stt", "/api/stt"}
Is2xx(status) == status >= 200 /\ status < 300

\* execute_tool_on_server after the post: unlink, raise_for_status, json();
\* then Step 4 of generate_with_remote_tools, the second generate_content.
FcReceive ==
    /\ binding = "fc" /\ pc = "awaiting" /\ reply # NoReply
    /\ files' = IF IsStt(pending.req) THEN files \ {FcRecording} ELSE files
    /\ pending' = NoCall
    /\ reply' = NoReply
    /\ IF ~Is2xx(reply.status)
       THEN Finish(LoopExcept(Raise("Exception", "HTTPStatusError")))
       ELSE \E raised \in BOOLEAN, text \in FinalTexts :
               IF raised
               THEN Finish(LoopExcept(Raise("Exception",
                                            "google.genai.errors.APIError")))
               ELSE Finish(LoopResult(FinalText(text)))
    /\ UNCHANGED serverVars
    /\ UNCHANGED <<declared, binding, tools, user_input, decision, nreq, wire, inbox,
                   lastExec>>

\* translate_text / transcribe_audio after the post, then result[key].
RestReceive ==
    /\ binding = "rest" /\ pc = "awaiting" /\ reply # NoReply
    /\ files' = IF IsStt(pending.req) THEN files \ {RestRecording} ELSE files
    /\ pending' = NoCall
    /\ reply' = NoReply
    /\ IF ~Is2xx(reply.status)
       THEN Finish(LoopExcept(Raise("Exception", "HTTPStatusError")))
       ELSE IF reply.key # RestResultKey(user_input)
       THEN Finish(LoopExcept(Raise("Exception", "KeyError")))
       ELSE Finish(LoopResult(reply.value))
    /\ UNCHANGED serverVars
    /\ UNCHANGED <<declared, binding, tools, user_input, decision, nreq, wire, inbox,
                   lastExec>>

\* await session.call_tool(...) ends; result.content[0].text is printed.
McpCallReturns ==
    /\ binding = "mcp" /\ pc = "awaiting" /\ pending # NoCall
    /\ pending' = NoCall
    /\ \E r \in McpCallResults :
          CASE r.kind = "content" -> Finish(LoopResult(r.text))
            [] r.kind = "empty" ->
                 /\ pc' = "prompt" /\ UNCHANGED exitReason
                 /\ outcome' = Error("No response from tool")
            [] r.kind = "error" -> Finish(LoopExcept(Raise("Exception", r.text)))
            [] OTHER -> Finish(LoopExcept(Raise("BaseException", r.text)))
    /\ UNCHANGED serverVars
    /\ UNCHANGED <<declared, binding, tools, user_input, decision, nreq, wire, inbox,
                   reply, lastExec, files>>

-----------------------------------------------------------------------------

Next ==
    \/ FcFetchTools
    \/ McpConnect
    \/ McpInitialize
    \/ McpListTools
    \/ ReadInput
    \/ FcDecide
    \/ RestDispatch
    \/ McpDecide
    \/ ServerHandle
    \/ ConnectError
    \/ Tick
    \/ Timeout
    \/ FcReceive
    \/ RestReceive
    \/ McpCallReturns

Spec == Init /\ [][Next]_vars


-----------------------------------------------------------------------------
(* The server program alone, with requests of several clients in flight *)

\* whisper_model.transcribe on the bytes of the file ("" is not audio).
Transcript(data) == "text of " \o data

\* fetch_tools_from_server of some client: GET /tools runs list_tools and the
\* client takes response.json().
FetchTools ==
    /\ binding = "fc"
    /\ Len(fetched) < MaxFetches
    /\ fetched' = Append(fetched, list_tools)
    /\ UNCHANGED <<uploads, disk, inodes, nstt>>
    /\ UNCHANGED clientVars

\* A multipart POST with the field audio reaches stt_endpoint.
SttArrive(p) ==
    /\ binding \in {"fc", "rest"}
    /\ uploads[p].pc \in {"idle", "done"}
    /\ nstt < MaxUploads
    /\ \E n \in UploadNames, c \in AudioData :
          uploads' = [uploads EXCEPT ![p] =
                         [NoUpload EXCEPT !.pc = "arrived", !.filename = n,
                                          !.content = c]]
    /\ nstt' = nstt + 1
    /\ UNCHANGED <<fetched, disk, inodes>>
    /\ UNCHANGED clientVars

Fail(u, msg) ==
    [u EXCEPT !.pc = "done", !.fault = msg,
              !.response = Resp(500, "detail", msg, "")]

\* audio_path = Path(...); open(audio_path, "wb") creates or truncates the
\* file; then the handler waits at `await audio.read()`.
SttOpen(p) ==
    LET u == uploads[p]
        audio_path == ServerPrefix(binding) \o u.filename
    IN
    /\ u.pc = "arrived"
    /\ \E ok \in BOOLEAN :
          IF ~ok
          THEN /\ uploads' = [uploads EXCEPT ![p] = Fail(u, "permission denied")]
               /\ UNCHANGED <<disk, inodes>>
          ELSE IF disk[audio_path] = NoInode
          THEN /\ inodes' = Append(inodes, "")
               /\ disk' = [disk EXCEPT ![audio_path] = Len(inodes) + 1]
               /\ uploads' = [uploads EXCEPT ![p] =
                                 [u EXCEPT !.pc = "reading",
                                           !.fd = Len(inodes) + 1]]
          ELSE /\ inodes' = [inodes EXCEPT ![disk[audio_path]] = ""]
               /\ disk' = disk
               /\ uploads' = [uploads EXCEPT ![p] =
                                 [u EXCEPT !.pc = "reading",
                                           !.fd = disk[audio_path]]]
    /\ UNCHANGED <<fetched, nstt>>
    /\ UNCHANGED clientVars

\* The read returns: f.write(content), the file is closed, then
\* whisper_model.transcribe(str(audio_path)), the join over the segments,
\* audio_path.unlink(missing_ok=True) and the response, with no further await;
\* any exception becomes HTTPException(500).
SttResume(p) ==
    LET u == uploads[p]
        audio_path == ServerPrefix(binding) \o u.filename
        written == [inodes EXCEPT ![u.fd] = u.content]
    IN
    /\ u.pc = "reading"
    /\ \E h \in {o \in SttOutcomes : o.raisedAt # "open"} :
          IF h.raisedAt = "write"
          THEN /\ uploads' = [uploads EXCEPT ![p] = Fail(u, h.v)]
               /\ UNCHANGED <<disk, inodes>>
          ELSE /\ inodes' = written
               /\ IF disk[audio_path] = NoInode
                  THEN /\ uploads' = [uploads EXCEPT ![p] =
                                         Fail(u, "No such file or directory")]
                       /\ disk' = disk
                  ELSE IF written[disk[audio_path]] = ""
                  THEN /\ uploads' = [uploads EXCEPT ![p] =
                                         Fail(u, "Invalid data found when processing input")]
                       /\ disk' = disk
                  ELSE IF h.raisedAt = "handler"
                  THEN /\ uploads' = [uploads EXCEPT ![p] = Fail(u, h.v)]
                       /\ disk' = disk
                  ELSE /\ uploads' = [uploads EXCEPT ![p] =
                             [u EXCEPT !.pc = "done",
                                       !.response =
                                          Resp(200, "transcribed_text",
                                               Transcript(written[disk[audio_path]]),
                                               "")]]
                       /\ disk' = [disk EXCEPT ![audio_path] = NoInode]
    /\ UNCHANGED <<fetched, nstt>>
    /\ UNCHANGED clientVars

ServerInit == Init /\ binding \in {"fc", "rest"}

ServerNext ==
    \/ FetchTools
    \/ \E p \in Slots : SttArrive(p)
    \/ \E p \in Slots : SttOpen(p)
    \/ \E p \in Slots : SttResume(p)

ServerSpec == ServerInit /\ [][ServerNext]_vars

-----------------------------------------------------------------------------
(* Vocabulary of the properties *)

DiscoveredNames == {tools[i].name : i \in DOMAIN tools}

Required(parameters) ==
    IF "required" \in DOMAIN parameters
    THEN {parameters.required[i] : i \in DOMAIN parameters.required}
    ELSE {}

\* args satisfies the JSON Schema object `parameters`: every required field is
\* present and every declared property that is present has the declared type.
SchemaSatisfied(args, parameters) ==
    /\ parameters.type = "object"
    /\ Required(parameters) \subseteq Keys(args)
    /\ \A a \in args : \A q \in parameters.properties :
          q.k = a.k => a.t = q.t

\* The Transport operations issued for the request being served.
CallsOfRequest == {i \in DOMAIN wire : wire[i].reqno = nreq /\ nreq > 0}
ToolCalls == {i \in DOMAIN wire : wire[i].op \in {"POST", "call_tool"}}

\* Shapes of the decision model's answer, independent of how the client reads it.
HasPart(d) == ~d.raised /\ d.candidates # <<>> /\ d.candidates[1] # <<>>
FirstPart(d) == d.candidates[1][1]
PartText(d) ==
    HasPart(d) /\ "text" \in FirstPart(d).attrs /\ Truthy(FirstPart(d).text)
PartCall(d) ==
    HasPart(d) /\ "function_call" \in FirstPart(d).attrs
    /\ FirstPart(d).function_call # NoCallObj

ToolSelected(d) ==
    CASE binding = "fc" -> PartCall(d) /\ ~PartText(d)
      [] binding = "mcp" -> /\ ~d.raised /\ d # NoDecision
                            /\ json_loads(d.text).ok
                            /\ json_loads(d.text).type = "dict"
                            /\ "name" \in json_loads(d.text).keys
      [] OTHER -> FALSE

SelectedName(d) ==
    IF binding = "fc" THEN FirstPart(d).function_call.name
    ELSE json_loads(d.text).name

NoToolSelected(d) ==
    CASE binding = "fc" -> PartText(d) /\ ~PartCall(d)
      [] binding = "mcp" -> ~d.raised /\ d.text = TxtPlain
      [] OTHER -> FALSE

FinalTextOf(d) == IF binding = "fc" THEN FirstPart(d).text ELSE d.text

Malformed(d) ==
    CASE binding = "fc" ->
            d # NoDecision /\ ~d.raised /\ ~PartText(d) /\ ~PartCall(d)
      [] binding = "mcp" ->
            /\ ~d.raised
            /\ d.text \in {NoneText, TxtTruncated, TxtNoName}
      [] OTHER -> FALSE

LoopOpen == pc = "prompt" \/ (pc = "exited" /\ exitReason = "exit_command")

-----------------------------------------------------------------------------
(* Properties *)

\* C1: when the decision model selects a tool name that is not among the
\* discovered tools, the request fails locally with an error and no Transport
\* operation (POST /tools/<name>, call_tool) is issued for it.
C1_UnknownToolNeverSent ==
    (ToolSelected(decision) /\ SelectedName(decision) \notin DiscoveredNames)
        => (CallsOfRequest = {} /\ outcome.kind = "error")

\* C2: every tool call handed to the Transport carries arguments that satisfy
\* the parameter schema of the discovered descriptor it names.
C2_OnlyValidArgumentsSent ==
    binding \in {"fc", "mcp"} =>
        \A i \in ToolCalls : \A j \in DOMAIN tools :
            tools[j].name = wire[i].name
                => SchemaSatisfied(wire[i].args, tools[j].parameters)

\* C3: when the decision model answers with plain text and no tool selection,
\* exactly that text is the request's result, no Transport operation is
\* issued, and the loop is ready for the next request.
C3_PlainTextReturned ==
    NoToolSelected(decision) =>
        /\ outcome = Result(FinalTextOf(decision))
        /\ CallsOfRequest = {}
        /\ LoopOpen

\* C4: executing translate with arguments that lack the field text ends in a
\* validation error (422) that names the field text, and translate_text is
\* not invoked for that call.
TranslatePaths == {"/tools/translate", "/api/translate"}

C4_MissingTextRejected ==
    (lastExec.path \in TranslatePaths /\ "text" \notin Keys(lastExec.body.args))
        => /\ lastExec.response.status = 422
           /\ lastExec.response.loc = "text"
           /\ ~lastExec.invoked

C4_Witness ==
    /\ lastExec.path = "/tools/translate"
    /\ lastExec.body = JsonBody(ArgsEmpty)
    /\ lastExec.response.status = 422

\* C5: when the function-calling client executes a published tool with
\* arguments that satisfy the tool's published parameter schema, the server
\* never answers with a validation error (for stt as well as for translate).
PublishedSchemaOk(o) ==
    \E j \in DOMAIN list_tools :
        /\ list_tools[j].name = o.name
        /\ SchemaSatisfied(o.args, list_tools[j].parameters)

C5_ValidArgumentsNeverRejected ==
    binding = "fc" =>
        \A i \in ToolCalls :
            (wire[i].reqno = lastExec.id /\ PublishedSchemaOk(wire[i]))
                => (lastExec.response.status # 422 /\ lastExec.response.loc = "")

C5_Witness ==
    /\ binding = "fc"
    /\ lastExec.path = "/tools/stt"
    /\ lastExec.response.status = 200
    /\ \E i \in ToolCalls :
          wire[i].reqno = lastExec.id /\ wire[i].name = "stt"
          /\ wire[i].args = ArgsEmpty /\ PublishedSchemaOk(wire[i])

\* C6: whenever the handler of a tool execution raises, the endpoint answers
\* with status 500 and a detail string that is the handler's message; the
\* fault never leaves the endpoint unconverted.
C6_HandlerFaultConverted ==
    lastExec.fault # ""
        => /\ lastExec.response.status = 500
           /\ lastExec.response.key = "detail"
           /\ lastExec.response.value = lastExec.fault

C6_Witness ==
    /\ lastExec.path = "/tools/translate"
    /\ lastExec.invoked
    /\ lastExec.fault = "translator unavailable"

\* C7: a request that ends in an error (connection failure, timeout, non-2xx
\* response, unparseable decision, unknown tool) is reported and the loop is
\* back at its prompt; the loop is left only by the exit command or by
\* cancellation after the channel broke.
C7_LoopSurvivesErrors ==
    /\ outcome.kind = "error" => LoopOpen
    /\ (pc = "exited" /\ nreq > 0) => exitReason \in {"exit_command", "cancelled"}
    /\ pc = "prompt" => ENABLED ReadInput

C7_Witness ==
    /\ outcome = Error("ReadTimeout")
    /\ pc = "prompt"
    /\ nreq < MaxRequests
    /\ ENABLED ReadInput

\* C8: in the MCP client connect precedes initialize, initialize precedes
\* list_tools, and no call_tool is issued before list_tools has returned the
\* tools.
Before(a, i) == \E j \in DOMAIN wire : j < i /\ wire[j].op = a

C8_McpOrder ==
    binding = "mcp" =>
        \A i \in DOMAIN wire :
            /\ wire[i].op = "initialize" => Before("connect", i)
            /\ wire[i].op = "list_tools" => Before("initialize", i)
            /\ wire[i].op = "call_tool" =>
                  (Before("list_tools", i) /\ tools = mcp_list_tools)

C8_Witness ==
    /\ binding = "mcp"
    /\ \E i \in DOMAIN wire : wire[i].op = "call_tool"
    /\ pc = "awaiting"

\* C9: every dispatched call is bounded: while it is pending it has a
\* configured timeout and has not waited longer than that.
C9_EverySendBounded ==
    pending # NoCall =>
        (pending.req.bounded /\ pending.waited <= pending.req.timeout)

\* C10: when the decision model's answer is neither a tool selection nor plain
\* text, the request ends in a reported error: no tool call is dispatched,
\* the program does not stop, and nothing is printed as a result.
C10_MalformedDecisionIsError ==
    Malformed(decision) =>
        /\ outcome.kind = "error"
        /\ CallsOfRequest = {}
        /\ LoopOpen

\* C11: every answer to GET /tools is the same sequence: the descriptors of
\* exactly the tools the server routes, in the order they are written
\* (translate, stt), with pairwise distinct names; and answering it changes
\* nothing on the server, whatever else the server is doing.
Names(r) == [k \in DOMAIN r |-> r[k].name]

RoutedTools ==
    {n \in {"translate", "stt", "delete_everything"} :
        Route("fc", "/tools/" \o n, JsonBody(ArgsEmpty),
              Outcome("none", ""), {}).response.status # 404}

DiscoveryAnswers ==
    \A i \in DOMAIN fetched :
        /\ Names(fetched[i]) = <<"translate", "stt">>
        /\ \A a, b \in DOMAIN fetched[i] :
              a # b => fetched[i][a].name # fetched[i][b].name
        /\ {fetched[i][k].name : k \in DOMAIN fetched[i]} = RoutedTools
        /\ \A j \in DOMAIN fetched : fetched[j] = fetched[i]

C11_DiscoverStable ==
    /\ []DiscoveryAnswers
    /\ [][fetched' # fetched => UNCHANGED <<uploads, disk, inodes, nstt>>]_vars

C11_Witness ==
    /\ Len(fetched) = 2
    /\ \E p \in Slots : uploads[p].pc = "reading"
    /\ \E p \in Slots : uploads[p].pc = "done"

\* C13: what the client hands to the decision model keeps, for every
\* discovered descriptor and in the same order, its name, its description and
\* its parameter schema.
C13_DescriptorsPreserved ==
    decision # NoDecision =>
        /\ Len(declared) = Len(tools)
        /\ \A i \in DOMAIN declared :
              /\ declared[i].name = tools[i].name
              /\ declared[i].description = tools[i].description
              /\ "parameters" \in DOMAIN declared[i]
              /\ declared[i].parameters = tools[i].parameters

\* C14: a finished stt request that met no fault of its own (open, write or
\* transcription of its own audio failing) has answered 200 with the
\* transcription of the audio it uploaded, whatever other stt requests ran
\* at the same time.
OwnFaults == {o.v : o \in {x \in SttOutcomes : x.raisedAt # "none"}}

C14_SttRequestsIndependent ==
    \A p \in Slots :
        (uploads[p].pc = "done" /\ uploads[p].fault \notin OwnFaults)
            => /\ uploads[p].response.status = 200
               /\ uploads[p].response.value = Transcript(uploads[p].content)

\* C15: no temporary audio file is left once the stt call that made it is
\* over: none on the server after the handler answered, none on the client
\* once it is no longer blocked in the upload.
C15_NoTempFileLeft ==
    /\ inbox = <<>> => files \cap ServerPaths = {}
    /\ pc # "awaiting" => files \cap {FcRecording, RestRecording} = {}

====
